---- MODULE Spec2Model ----
(***************************************************************************)
(* SSH MCP server: the connection registry (SSHConnectionManager), the     *)
(* tool layer that calls it (SSHTools) and the ssh2 transport it drives.   *)
(*                                                                         *)
(* The repository holds two revisions of SSHConnectionManager:             *)
(*   "part_004"              identifiers user@host:port_<time>_<random>,   *)
(*                           independent auth ifs, end/close only log,     *)
(*                           keep-alive interval;                          *)
(*   "connection-manager.ts" identifiers user@host:port, else-if auth      *)
(*                           chain, end/close remove the entry.            *)
(* The variable revision says which one runs; it never changes.            *)
(*                                                                         *)
(* Spec          the registry: MaxAttempts connect attempts, disconnect    *)
(*               and the transport's events.                               *)
(* SpecCommands  MaxCmdAttempts connect attempts and up to MaxCommands     *)
(*               command channels opened on them.                          *)
(* SpecStreams   one command channel with its stdout / stderr data events. *)
(* SpecListing   listConnections and what changes a record afterwards.     *)
(* SpecExpand    EnvParser: template expansion under every .sshenv store.  *)
(* SpecFiles     ssh_write_file and ssh_read_file against the remote cat.  *)
(* ssh2 is the environment: it emits ready / error / timeout / end / close *)
(* and the exec callback and stream events in any order it can produce.    *)
(***************************************************************************)
EXTENDS Integers, Sequences, FiniteSets, TLC

\* ---------------------------------------------------------------- bounds
MaxAttempts == 2      \* connect calls that open a transport (Spec)
MaxCmdAttempts == 1   \* connect calls that open a transport (SpecCommands)
MaxCommands == 2      \* executeCommand calls that reach exec (SpecCommands)
MaxTicks == 1         \* ticks of the clock
MaxLen == 4           \* characters of a string handed to template expansion
MaxContent == 2       \* characters of a file's content
MaxExpansions == 2    \* expandObjectVariables calls on one value
MaxChunks == 2        \* characters one stream of a channel emits (SpecStreams)
MaxStreamCommands == 1  \* executeCommand calls that reach exec (SpecStreams)
MaxReads == 3         \* fs.readFile calls on .sshenv (SpecLoad)
MaxConcurrent == 2    \* executeCommand calls that reach exec (SpecConcurrent)
MaxListing == 5       \* elements of the stdout of ls -la (SpecParse)

\* SSH_MCP_MAX_CONNECTIONS, the configured ceiling (default 10)
maxConnections == 1

Revisions == {"part_004", "connection-manager.ts"}
Endpoints == {"u@h:22", "u@g:22"}          \* username@host:port
KeyPaths == {"none", "readable", "unreadable"}
TickSeconds == 60                          \* one tick: the keep-alive period, 60000 ms
CommandTimeouts == {60}                    \* the timeout argument, seconds (default 60)
FileTimeout == 30                          \* the timeout of read / write / list
Null == -1000                              \* JavaScript null / undefined
ExitCodes == {0, 1, Null}                  \* the code argument of stream 'close'
Kinds == {"execute", "read", "write", "list"}
Chunks == {<<"a">>, <<"b">>}               \* the data a stream emits in one event

VARIABLES
  revision,     \* which SSHConnectionManager revision runs
  now,          \* Date.now(), in seconds since the start
  clients,      \* one record per new Client(): transport, closure variables, promise
  connections,  \* this.connections: identifier -> index of the client it holds
  calls,        \* one record per connection.exec(): channel and promise
  lastOp,       \* the operation or event of the last step and what it returned
  listed,       \* the array the last listConnections call returned
  envFile,      \* the .sshenv file: absent, or the KEY=VALUE pairs it holds; the
                \* fs.readFile calls made on it (reads) and those in flight
  envVars,      \* EnvParser.envVars
  isLoaded,     \* EnvParser.isLoaded
  logLevel,     \* config.logLevel
  logs,         \* the records the logger has written
  expansion,    \* the last expandObjectVariables call: the value it was handed
                \* (input, as it is after the call) and the value it gave back
  remoteFiles,  \* the files of the remote host: path -> content
  fileResult    \* what the last file tool returned

\* the state of the tool layer: listing, template expansion, file tools
toolVars == <<listed, envFile, envVars, isLoaded, logLevel, logs, expansion,
              remoteFiles, fileResult>>

vars == <<revision, now, clients, connections, calls, lastOp, toolVars>>

NoId == <<"", 0>>
\* an identifier the manager never issued
GhostId == <<"u@h:22", -1>>
\* the identifiers a caller may name: every one issued so far, and GhostId
CallerIds == {clients[c].id : c \in DOMAIN clients} \cup {GhostId}

\* ------------------------------------------------------------ pure parts

\* generateConnectionId: part_004 appends Date.now() and a random suffix,
\* a stamp no earlier call drew; connection-manager.ts uses the endpoint alone.
generateConnectionId(ep, stamp) ==
  IF revision = "part_004" THEN <<ep, stamp>> ELSE <<ep, 0>>

\* tools.ts executeSSHConnect: the SSHAuthConfig built from the arguments.
\* privateKey is the content read from privateKeyPath.
AuthConfig(password, keyPath, passphrase, useAgent) ==
  (IF password THEN {"password"} ELSE {})
    \cup (IF keyPath = "readable" THEN {"privateKey"} ELSE {})
    \cup (IF passphrase THEN {"passphrase"} ELSE {})
    \cup (IF useAgent THEN {"agent"} ELSE {})

\* connect, "Add authentication methods": the fields put on connectConfig.
ConnectConfigAuth(auth) ==
  IF revision = "part_004"
  THEN (IF "password" \in auth THEN {"password"} ELSE {})
         \cup (IF "privateKey" \in auth
               THEN {"privateKey"} \cup (auth \cap {"passphrase"})
               ELSE {})
         \cup (IF "agent" \in auth THEN {"agent"} ELSE {})
  ELSE IF "password" \in auth THEN {"password"}
  ELSE IF "privateKey" \in auth THEN {"privateKey"} \cup (auth \cap {"passphrase"})
  ELSE IF "agent" \in auth THEN {"agent"}
  ELSE {}

\* errors.ts, enum ErrorCode: the codes of the taxonomy
ErrorCodes ==
  {"CONNECTION_FAILED", "CONNECTION_TIMEOUT", "AUTHENTICATION_FAILED",
   "CONNECTION_NOT_FOUND", "COMMAND_TIMEOUT", "COMMAND_FAILED", "INVALID_COMMAND",
   "FILE_NOT_FOUND", "FILE_ACCESS_DENIED", "FILE_OPERATION_FAILED",
   "INVALID_CONFIG", "MISSING_CONFIG", "INVALID_REQUEST", "METHOD_NOT_FOUND",
   "INVALID_PARAMS", "INTERNAL_ERROR", "NOT_IMPLEMENTED"}

\* exitCode: code || 0
ExitCodeOf(code) == IF code = Null \/ code = 0 THEN 0 ELSE code

\* listConnections: the info records of the registry's entries
listConnections == {clients[connections[id]] : id \in DOMAIN connections}
ListedIds == {clients[connections[id]].id : id \in DOMAIN connections}

\* getConnectionStats of the server: the number of listed connections and
\* the number of them whose record says isConnected
getConnectionStats ==
  [total |-> Cardinality(DOMAIN connections),
   connected |-> Cardinality({id \in DOMAIN connections :
                                clients[connections[id]].isConnected})]

\* the record of the last step
Op(op, id, code, client, cfg, flag) ==
  [op |-> op, id |-> id, code |-> code, client |-> client, args |-> {}, cfg |-> cfg,
   flag |-> flag, keyPath |-> "none", command |-> <<>>]

\* the arguments of ssh_connect that carry authentication material
ConnectArgs(password, keyPath, passphrase, useAgent) ==
  (IF password THEN {"password"} ELSE {})
    \cup (IF keyPath # "none" THEN {"privateKeyPath"} ELSE {})
    \cup (IF passphrase THEN {"passphrase"} ELSE {})
    \cup (IF useAgent THEN {"useAgent"} ELSE {})

\* Map.set and Map.delete
MapSet(m, k, v) == [x \in (DOMAIN m) \cup {k} |-> IF x = k THEN v ELSE m[x]]
MapDelete(m, k) == [x \in (DOMAIN m) \ {k} |-> m[x]]

\* ------------------------------------------------------- strings, values

\* a string is the sequence of its characters
Chars == {"$", "{", "}", "P", "Q"}
Strings == UNION {[1..n -> Chars] : n \in 0..MaxLen}

\* the JavaScript values expandObjectVariables tells apart
Str(s) == [type |-> "string", chars |-> s]
Num(n) == [type |-> "number", num |-> n]
Bool(b) == [type |-> "boolean", bool |-> b]
Arr(items) == [type |-> "array", items |-> items]
Obj(entries) == [type |-> "object", entries |-> entries]
JsNull == [type |-> "null"]

\* the arguments of ssh_connect with s in the password field, and the other
\* shapes a caller hands to expandObjectVariables
ConnectObject(s) ==
  Obj([host |-> Str(<<"h">>), port |-> Num(22), username |-> Str(<<"u">>),
       password |-> Str(s), useAgent |-> Bool(FALSE)])
\* an object as JSON.parse builds it from {"path": s, "__proto__": s}
ProtoKeyObject(s) == Obj(("path" :> Str(s)) @@ ("__proto__" :> Str(s)))
Shapes(s) == {Str(s), Arr(<<Str(s), Num(22), JsNull>>), ConnectObject(s),
              ProtoKeyObject(s)}

\* the variables a .sshenv file may define and the values it gives them
Names == {<<"P">>, <<"Q">>}
StoreValues == {<<>>, <<"s">>, <<"$", "{", "Q", "}">>}
Stores == UNION {[D -> StoreValues] : D \in SUBSET Names}

\* the .sshenv file before any read of it, and the files a process may find
EnvFile(exists, fileVars) ==
  [exists |-> exists, vars |-> fileVars, reads |-> 0, reading |-> 0]
EnvFiles == {EnvFile(FALSE, <<>>)} \cup {EnvFile(TRUE, st) : st \in Stores}

\* -------------------------------------------------------------- EnvParser

\* the position of the first "}" of s at or after j, 0 when there is none
RECURSIVE ClosingBrace(_, _)
ClosingBrace(s, j) ==
  IF j > Len(s) THEN 0
  ELSE IF s[j] = "}" THEN j
  ELSE ClosingBrace(s, j + 1)

\* /\$\{([^}]+)\}/ tried at position i of s: the position of the match's "}",
\* 0 when the pattern does not match there
MatchAt(s, i) ==
  IF i + 3 <= Len(s) /\ s[i] = "$" /\ s[i + 1] = "{" /\ s[i + 2] # "}"
  THEN ClosingBrace(s, i + 3)
  ELSE 0

ReplacementKeepingEmpty(varName) ==
  IF varName \notin DOMAIN envVars \/ envVars[varName] = <<>>
  THEN <<"$", "{">> \o varName \o <<"}">>
  ELSE envVars[varName]

\* the replace callback: an undefined variable keeps the match, an empty or
\* a set one gives its value
Replacement(varName) ==
  IF varName \notin DOMAIN envVars
  THEN <<"$", "{">> \o varName \o <<"}">>
  ELSE envVars[varName]

\* input.replace(/\$\{([^}]+)\}/g, ...): one pass from left to right; the
\* text put in place of a match is not scanned again
RECURSIVE Replace(_, _)
Replace(s, i) ==
  IF i > Len(s) THEN <<>>
  ELSE LET j == MatchAt(s, i) IN
       IF j = 0
       THEN <<s[i]>> \o Replace(s, i + 1)
       ELSE Replacement(SubSeq(s, i + 2, j - 1)) \o Replace(s, j + 1)

\* EnvParser.expandVariables
expandVariables(input) == IF ~isLoaded THEN input ELSE Replace(input, 1)

\* EnvParser.expandObjectVariables
RECURSIVE expandObjectVariables(_)
expandObjectVariables(obj) ==
  IF obj.type = "string" THEN Str(expandVariables(obj.chars))
  ELSE IF obj.type \in {"number", "boolean", "null"} THEN obj
  ELSE IF obj.type = "array"
  THEN Arr([i \in DOMAIN obj.items |-> expandObjectVariables(obj.items[i])])
  ELSE \* result[key] = ... on const result = {}: for the key "__proto__" the
       \* assignment runs Object.prototype's setter and creates no property
       Obj([k \in (DOMAIN obj.entries) \ {"__proto__"}
              |-> expandObjectVariables(obj.entries[k])])

\* a log record: its level and its text, a sequence of the template's
\* literal parts and of the characters put into it
Log(level, text) == [level |-> level, text |-> text]

\* the record the replace callback writes for one match
ReplacementLog(varName) ==
  IF varName \notin DOMAIN envVars
  THEN Log("warn", <<"Environment variable not found: ">> \o varName)
  ELSE IF envVars[varName] = <<>>
  THEN Log("warn", <<"Environment variable is empty: ">> \o varName)
  ELSE Log("debug", <<"Expanded ", "$", "{">> \o varName \o <<"}", " -> ">>
                      \o envVars[varName])

RECURSIVE ReplaceLogs(_, _)
ReplaceLogs(s, i) ==
  IF i > Len(s) THEN {}
  ELSE LET j == MatchAt(s, i) IN
       IF j = 0
       THEN ReplaceLogs(s, i + 1)
       ELSE {ReplacementLog(SubSeq(s, i + 2, j - 1))} \cup ReplaceLogs(s, j + 1)

\* the records one expandVariables call hands to the logger
expandVariablesLogs(input) ==
  IF ~isLoaded
  THEN {Log("warn", <<"Environment variables not loaded. Call loadEnvFile() first.">>)}
  ELSE ReplaceLogs(input, 1)

\* the records one expandObjectVariables call hands to the logger
RECURSIVE expandObjectLogs(_)
expandObjectLogs(obj) ==
  IF obj.type = "string" THEN expandVariablesLogs(obj.chars)
  ELSE IF obj.type \in {"number", "boolean", "null"} THEN {}
  ELSE IF obj.type = "array"
  THEN UNION {expandObjectLogs(obj.items[i]) : i \in DOMAIN obj.items}
  ELSE UNION {expandObjectLogs(obj.entries[k]) : k \in DOMAIN obj.entries}

\* winston writes a record when its level is at or above the configured one
LevelRank == [error |-> 0, warn |-> 1, info |-> 2, debug |-> 5]
Written(records) == {r \in records : LevelRank[r.level] <= LevelRank[logLevel]}

\* ------------------------------------------------------------------ Init

\* new SSHConnectionManager()
InitManager ==
  /\ revision \in Revisions
  /\ now = 0
  /\ clients = <<>>
  /\ connections = <<>>
  /\ calls = <<>>
  /\ lastOp = Op("start", NoId, "OK", 0, {}, FALSE)
  /\ listed = <<>>

\* new EnvParser(): nothing loaded, nothing expanded
InitEnvParser ==
  /\ envVars = <<>>
  /\ isLoaded = FALSE
  /\ logs = {}

\* what a file tool gives its caller: the content of a read, the names of a
\* listing, or an error code with the stderr its details carry; call is the
\* executeCommand call the tool awaited, 0 where the model does not follow it
FileResult(op, path, content, code) ==
  [op |-> op, path |-> path, content |-> content, code |-> code,
   call |-> 0, stderr |-> <<>>, files |-> <<>>]

\* no file tool has run; the remote host has no file yet
InitFiles ==
  /\ remoteFiles = <<>>
  /\ fileResult = FileResult("none", "", <<>>, "OK")

Init ==
  /\ InitManager
  /\ InitEnvParser
  /\ InitFiles
  /\ envFile = EnvFile(FALSE, <<>>)
  /\ logLevel = "info"
  /\ expansion = [input |-> Str(<<>>), value |-> Str(<<>>), applied |-> 0,
                  loaded |-> FALSE,
                  ensured |-> FALSE]

\* ---------------------------------------------------------------- connect

\* an executeSSHConnect that goes on without the key when its file cannot be
\* read, with whatever other method the arguments give
executeSSHConnectDowngrading(ep, password, keyPath, passphrase, useAgent) ==
  LET auth == AuthConfig(password, keyPath, passphrase, useAgent)
      args == ConnectArgs(password, keyPath, passphrase, useAgent)
      id == generateConnectionId(ep, Len(clients) + 1)
  IN
  IF id \in DOMAIN connections /\ clients[connections[id]].isConnected
  THEN
    /\ lastOp' = [Op("connect", id, "OK", connections[id], {}, TRUE)
                   EXCEPT !.args = args, !.keyPath = keyPath]
    /\ UNCHANGED <<toolVars, revision, now, clients, connections, calls>>
  ELSE
    /\ Len(clients) < MaxAttempts
    /\ clients' = Append(clients,
         [ep |-> ep, id |-> id, transport |-> "connecting", result |-> "pending",
          isConnected |-> FALSE, lastUsed |-> now, interval |-> FALSE,
          presentAtStart |-> (id \in DOMAIN connections)])
    /\ lastOp' = [Op("connect", id, "PENDING", Len(clients) + 1,
                       ConnectConfigAuth(auth), FALSE)
                   EXCEPT !.args = args, !.keyPath = keyPath]
    /\ UNCHANGED <<toolVars, revision, now, connections, calls>>

\* tools.ts executeSSHConnect followed by SSHConnectionManager.connect up to
\* client.connect(connectConfig).
executeSSHConnect(ep, password, keyPath, passphrase, useAgent) ==
  LET auth == AuthConfig(password, keyPath, passphrase, useAgent)
      args == ConnectArgs(password, keyPath, passphrase, useAgent)
      id == generateConnectionId(ep, Len(clients) + 1)
  IN
  IF keyPath = "unreadable"
  THEN \* fs.readFile failed: ErrorFactory.connectionFailed, connect not called
    /\ lastOp' = [Op("connect", NoId, "CONNECTION_FAILED", 0, {}, FALSE)
                   EXCEPT !.args = args, !.keyPath = keyPath]
    /\ UNCHANGED <<toolVars, revision, now, clients, connections, calls>>
  ELSE IF id \in DOMAIN connections /\ clients[connections[id]].isConnected
  THEN \* reuse: return existing.info
    /\ lastOp' = [Op("connect", id, "OK", connections[id], {}, TRUE)
                   EXCEPT !.args = args, !.keyPath = keyPath]
    /\ UNCHANGED <<toolVars, revision, now, clients, connections, calls>>
  ELSE
    /\ Len(clients) < MaxAttempts
    /\ clients' = Append(clients,
         [ep |-> ep, id |-> id, transport |-> "connecting", result |-> "pending",
          isConnected |-> FALSE, lastUsed |-> now, interval |-> FALSE,
          presentAtStart |-> (id \in DOMAIN connections)])
    /\ lastOp' = [Op("connect", id, "PENDING", Len(clients) + 1,
                       ConnectConfigAuth(auth), FALSE)
                   EXCEPT !.args = args, !.keyPath = keyPath]
    /\ UNCHANGED <<toolVars, revision, now, connections, calls>>

\* connect attempts whose transport is still connecting
Connecting == {c \in DOMAIN clients : clients[c].transport = "connecting"}

\* the promise of a connect settles once: later resolve / reject are no-ops
Settle(c, outcome) == IF clients[c].result = "pending" THEN outcome ELSE clients[c].result

\* a 'ready' handler that marks the record connected and resolves without
\* storing it in this.connections
OnReadyUnregistered(c) ==
  /\ clients[c].transport = "connecting"
  /\ clients' = [clients EXCEPT ![c].transport = "ready",
                                ![c].isConnected = TRUE,
                                ![c].lastUsed = now,
                                ![c].interval = (revision = "part_004"),
                                ![c].result = Settle(c, "resolved")]
  /\ lastOp' = Op("ready", clients[c].id,
                  IF clients[c].result = "pending" THEN "OK" ELSE "NOOP",
                  c, {}, clients[c].presentAtStart)
  /\ UNCHANGED <<toolVars, revision, now, connections, calls>>

\* client.on('ready')
OnReady(c) ==
  /\ clients[c].transport = "connecting"
  /\ clients' = [clients EXCEPT ![c].transport = "ready",
                                ![c].isConnected = TRUE,
                                ![c].lastUsed = now,
                                ![c].interval = (revision = "part_004"),
                                ![c].result = Settle(c, "resolved")]
  /\ connections' = MapSet(connections, clients[c].id, c)
  /\ lastOp' = Op("ready", clients[c].id,
                  IF clients[c].result = "pending" THEN "OK" ELSE "NOOP",
                  c, {}, clients[c].presentAtStart)
  /\ UNCHANGED <<toolVars, revision, now, calls>>

\* an 'error' handler that also marks the attempt's record not connected
\* and leaves the registry as it is
OnErrorMarking(c) ==
  /\ clients[c].transport \in {"connecting", "ready"}
  /\ clients' = [clients EXCEPT ![c].transport = "errored",
                                ![c].isConnected = FALSE,
                                ![c].result = Settle(c, "CONNECTION_FAILED")]
  /\ lastOp' = Op("error", clients[c].id,
                  IF clients[c].result = "pending" THEN "CONNECTION_FAILED" ELSE "NOOP",
                  c, {}, FALSE)
  /\ UNCHANGED <<toolVars, revision, now, connections, calls>>

\* client.on('error'): the transport fails while connecting or once ready
OnError(c) ==
  /\ clients[c].transport \in {"connecting", "ready"}
  /\ clients' = [clients EXCEPT ![c].transport = "errored",
                                ![c].result = Settle(c, "CONNECTION_FAILED")]
  /\ lastOp' = Op("error", clients[c].id,
                  IF clients[c].result = "pending" THEN "CONNECTION_FAILED" ELSE "NOOP",
                  c, {}, FALSE)
  /\ UNCHANGED <<toolVars, revision, now, connections, calls>>

\* client.on('timeout'): the socket reports a timeout; it stays open
OnTimeout(c) ==
  /\ clients[c].transport \in {"connecting", "ready"}
  /\ clients' = [clients EXCEPT ![c].result = Settle(c, "CONNECTION_TIMEOUT")]
  /\ lastOp' = Op("timeout", clients[c].id,
                  IF clients[c].result = "pending" THEN "CONNECTION_TIMEOUT" ELSE "NOOP",
                  c, {}, FALSE)
  /\ UNCHANGED <<toolVars, revision, now, connections, calls>>

\* removeConnection: the record stored under id is marked not connected and
\* the entry deleted; nothing happens when id is not a key
ClientsAfterRemove(cl, id) ==
  IF id \in DOMAIN connections
  THEN [cl EXCEPT ![connections[id]].isConnected = FALSE]
  ELSE cl
ConnectionsAfterRemove(id) ==
  IF id \in DOMAIN connections THEN MapDelete(connections, id) ELSE connections

\* client.on('end'): part_004 only logs; connection-manager.ts calls
\* removeConnection(connectionId) with this attempt's identifier
OnEnd(c) ==
  /\ clients[c].transport \in {"connecting", "ready", "ending"}
  /\ IF revision = "part_004"
     THEN /\ clients' = [clients EXCEPT ![c].transport = "ended"]
          /\ UNCHANGED connections
     ELSE /\ clients' = ClientsAfterRemove([clients EXCEPT ![c].transport = "ended"],
                                           clients[c].id)
          /\ connections' = ConnectionsAfterRemove(clients[c].id)
  /\ lastOp' = Op("end", clients[c].id, "OK", c, {}, FALSE)
  /\ UNCHANGED <<toolVars, revision, now, calls>>

\* client.on('close'): as 'end'
OnClose(c) ==
  /\ clients[c].transport \in {"connecting", "ready", "ending", "errored", "ended"}
  /\ IF revision = "part_004"
     THEN /\ clients' = [clients EXCEPT ![c].transport = "closed"]
          /\ UNCHANGED connections
     ELSE /\ clients' = ClientsAfterRemove([clients EXCEPT ![c].transport = "closed"],
                                           clients[c].id)
          /\ connections' = ConnectionsAfterRemove(clients[c].id)
  /\ lastOp' = Op("close", clients[c].id, "OK", c, {}, FALSE)
  /\ UNCHANGED <<toolVars, revision, now, calls>>

\* the setInterval callback of the 'ready' handler (part_004)
KeepAlive(c) ==
  /\ clients[c].interval
  /\ IF clients[c].id \in DOMAIN connections
     THEN clients' = [clients EXCEPT ![c].lastUsed = now]
     ELSE clients' = [clients EXCEPT ![c].interval = FALSE]
  /\ lastOp' = Op("keepalive", clients[c].id, "OK", c, {}, FALSE)
  /\ UNCHANGED <<toolVars, revision, now, connections, calls>>

\* ------------------------------------------------------------- disconnect

\* client.end() of ssh2: an open socket starts closing
ClientEnd(t) == IF t \in {"connecting", "ready"} THEN "ending" ELSE t

\* a disconnect that ends the transport and leaves the removal to the
\* transport's 'end' / 'close' handlers
disconnectAwaitingClose(id) ==
  IF id \notin DOMAIN connections
  THEN /\ lastOp' = Op("disconnect", id, "CONNECTION_NOT_FOUND", 0, {}, FALSE)
       /\ UNCHANGED <<toolVars, revision, now, clients, connections, calls>>
  ELSE LET c == connections[id] IN
       /\ clients' = [clients EXCEPT ![c].transport = ClientEnd(@)]
       /\ lastOp' = Op("disconnect", id, "OK", c, {}, FALSE)
       /\ UNCHANGED <<toolVars, revision, now, connections, calls>>

\* a disconnect that treats an unknown identifier as already disconnected
disconnectLenient(id) ==
  IF id \notin DOMAIN connections
  THEN /\ lastOp' = Op("disconnect", id, "OK", 0, {}, FALSE)
       /\ UNCHANGED <<toolVars, revision, now, clients, connections, calls>>
  ELSE LET c == connections[id] IN
       /\ clients' = [clients EXCEPT ![c].transport = ClientEnd(@),
                                     ![c].isConnected = FALSE]
       /\ connections' = MapDelete(connections, id)
       /\ lastOp' = Op("disconnect", id, "OK", c, {}, FALSE)
       /\ UNCHANGED <<toolVars, revision, now, calls>>

\* disconnect: connection.connection.end(), removeConnection, resolve
disconnect(id) ==
  IF id \notin DOMAIN connections
  THEN /\ lastOp' = Op("disconnect", id, "CONNECTION_NOT_FOUND", 0, {}, FALSE)
       /\ UNCHANGED <<toolVars, revision, now, clients, connections, calls>>
  ELSE LET c == connections[id] IN
       /\ clients' = ClientsAfterRemove([clients EXCEPT ![c].transport = ClientEnd(@)], id)
       /\ connections' = ConnectionsAfterRemove(id)
       /\ lastOp' = Op("disconnect", id, "OK", c, {}, FALSE)
       /\ UNCHANGED <<toolVars, revision, now, calls>>

\* a cleanup that ends every registered transport and leaves the removal of
\* the entries to the transports' 'end' / 'close' handlers
cleanupAwaitingClose ==
  /\ clients' = [c \in DOMAIN clients |->
                   IF \E id \in DOMAIN connections : connections[id] = c
                   THEN [clients[c] EXCEPT !.transport = ClientEnd(@)]
                   ELSE clients[c]]
  /\ lastOp' = Op("cleanup", NoId, "OK", 0, {}, FALSE)
  /\ UNCHANGED <<toolVars, revision, now, connections, calls>>

\* cleanup: disconnect(id) for every key of this.connections; each of them
\* ends its transport and removes its entry before cleanup awaits anything
cleanup ==
  /\ clients' = [c \in DOMAIN clients |->
                   IF \E id \in DOMAIN connections : connections[id] = c
                   THEN [clients[c] EXCEPT !.transport = ClientEnd(@),
                                           !.isConnected = FALSE]
                   ELSE clients[c]]
  /\ connections' = <<>>
  /\ lastOp' = Op("cleanup", NoId, "OK", 0, {}, FALSE)
  /\ UNCHANGED <<toolVars, revision, now, calls>>

\* --------------------------------------------------------------- listing

\* the fields of the SSHConnection record of client c that change after
\* construction, with its identifier and endpoint
Info(cl, c) ==
  [id |-> cl[c].id, ep |-> cl[c].ep, isConnected |-> cl[c].isConnected,
   lastUsed |-> cl[c].lastUsed]

\* tools.ts executeSSHListConnections: the array holds conn.info of every
\* entry, the object the manager itself keeps. listed maps each element
\* (the client whose info it is) to the fields it had when the call returned.
executeSSHListConnections ==
  /\ listed' = [c \in {connections[id] : id \in DOMAIN connections} |-> Info(clients, c)]
  /\ lastOp' = Op("listConnections", NoId, "OK", 0, {}, FALSE)
  /\ UNCHANGED <<revision, now, clients, connections, calls,
                 envFile, envVars, isLoaded, logLevel, logs, expansion,
                 remoteFiles, fileResult>>

\* --------------------------------------------------------- executeCommand

\* the timeout the tool puts on the SSHCommand
TimeoutOf(kind, timeout) == IF kind = "execute" THEN timeout ELSE FileTimeout

\* SSHConnectionManager.executeCommand(connectionId, command) up to
\* connection.connection.exec(command.command, ...): command is the text of
\* the SSHCommand it is handed
issueCommand(id, kind, timeout, command) ==
  IF id \notin DOMAIN connections
  THEN /\ lastOp' = [Op(kind, id, "CONNECTION_NOT_FOUND", 0, {}, FALSE) EXCEPT !.command = command]
       /\ UNCHANGED <<toolVars, revision, now, clients, connections, calls>>
  ELSE LET c == connections[id] IN
    IF ~clients[c].isConnected
    THEN /\ lastOp' = [Op(kind, id, "CONNECTION_FAILED", c, {}, FALSE) EXCEPT !.command = command]
         /\ UNCHANGED <<toolVars, revision, now, clients, connections, calls>>
    ELSE IF clients[c].transport # "ready"
    THEN \* ssh2 exec throws 'Not connected' inside the promise executor
         /\ lastOp' = [Op(kind, id, "Error", c, {}, FALSE) EXCEPT !.command = command]
         /\ UNCHANGED <<toolVars, revision, now, clients, connections, calls>>
    ELSE /\ Len(calls) < MaxCommands
         /\ calls' = Append(calls,
              [client |-> c, channel |-> "opening",
               result |-> "pending", exitCode |-> Null,
               issuedAt |-> now, timeout |-> TimeoutOf(kind, timeout),
               stdout |-> <<>>, stderr |-> <<>>,
               sentOut |-> <<>>, sentErr |-> <<>>,
               resultStdout |-> <<>>, resultStderr |-> <<>>])
         /\ lastOp' = [Op(kind, id, "PENDING", c, {}, TRUE) EXCEPT !.command = command]
         /\ UNCHANGED <<toolVars, revision, now, clients, connections>>

\* tools.ts executeSSHExecuteCommand / ReadFile / WriteFile / ListFiles up to
\* SSHConnectionManager.executeCommand's connection.connection.exec(...), where
\* the text of the command is not followed
executeCommand(id, kind, timeout) == issueCommand(id, kind, timeout, <<>>)

SettleCall(k, outcome) == IF calls[k].result = "pending" THEN outcome ELSE calls[k].result

\* the exec callback: (error, stream)
ExecCallback(k, error) ==
  /\ calls[k].channel = "opening"
  /\ IF error
     THEN /\ calls' = [calls EXCEPT ![k].channel = "failed",
                                    ![k].result = SettleCall(k, "COMMAND_FAILED")]
          /\ lastOp' = Op("exec", NoId, "COMMAND_FAILED", k, {}, FALSE)
     ELSE /\ calls' = [calls EXCEPT ![k].channel = "open"]
          /\ lastOp' = Op("exec", NoId, "OK", k, {}, FALSE)
  /\ UNCHANGED <<toolVars, revision, now, clients, connections>>

StdoutDataShared(k, data) ==
  /\ calls[k].channel \in {"open", "errored"}
  /\ Len(calls[k].sentOut) < MaxChunks
  /\ calls' = [j \in DOMAIN calls |->
                IF j = k
                THEN [calls[j] EXCEPT !.sentOut = @ \o data, !.stdout = @ \o data]
                ELSE IF calls[j].client = calls[k].client
                          /\ calls[j].channel \in {"open", "errored"}
                THEN [calls[j] EXCEPT !.stdout = @ \o data]
                ELSE calls[j]]
  /\ lastOp' = Op("stdout", NoId, "OK", k, {}, FALSE)
  /\ UNCHANGED <<toolVars, revision, now, clients, connections>>

\* stream.on('data') and stream.stderr.on('data'): the channel emits a chunk
\* (sentOut / sentErr keep everything it emitted) and the handler appends it
StdoutData(k, data) ==
  /\ calls[k].channel \in {"open", "errored"}
  /\ Len(calls[k].sentOut) < MaxChunks
  /\ calls' = [calls EXCEPT ![k].sentOut = @ \o data,
                            ![k].stdout = @ \o data]
  /\ lastOp' = Op("stdout", NoId, "OK", k, {}, FALSE)
  /\ UNCHANGED <<toolVars, revision, now, clients, connections>>

StderrData(k, data) ==
  /\ calls[k].channel \in {"open", "errored"}
  /\ Len(calls[k].sentErr) < MaxChunks
  /\ calls' = [calls EXCEPT ![k].sentErr = @ \o data,
                            ![k].stderr = @ \o data]
  /\ lastOp' = Op("stderr", NoId, "OK", k, {}, FALSE)
  /\ UNCHANGED <<toolVars, revision, now, clients, connections>>

\* a 'close' handler whose resolve replaces what the promise settled with
StreamCloseResettling(k, code) ==
  /\ calls[k].channel \in {"open", "errored"}
  /\ calls' = [calls EXCEPT ![k].channel = "closed",
                            ![k].result = "resolved",
                            ![k].exitCode = ExitCodeOf(code),
                            ![k].resultStdout = calls[k].stdout,
                            ![k].resultStderr = calls[k].stderr]
  /\ clients' = [clients EXCEPT ![calls[k].client].lastUsed = now]
  /\ lastOp' = Op("streamclose", NoId,
                  IF calls[k].result = "pending" THEN "OK" ELSE "NOOP",
                  k, {}, code = Null)
  /\ UNCHANGED <<toolVars, revision, now, connections>>

\* stream.on('close', code)
StreamClose(k, code) ==
  /\ calls[k].channel \in {"open", "errored"}
  /\ calls' = [calls EXCEPT ![k].channel = "closed",
                            ![k].result = SettleCall(k, "resolved"),
                            ![k].exitCode = IF calls[k].result = "pending"
                                            THEN ExitCodeOf(code) ELSE @,
                            ![k].resultStdout = IF calls[k].result = "pending"
                                                THEN calls[k].stdout ELSE @,
                            ![k].resultStderr = IF calls[k].result = "pending"
                                                THEN calls[k].stderr ELSE @]
  /\ clients' = [clients EXCEPT ![calls[k].client].lastUsed = now]
  /\ lastOp' = Op("streamclose", NoId,
                  IF calls[k].result = "pending" THEN "OK" ELSE "NOOP",
                  k, {}, code = Null)
  /\ UNCHANGED <<toolVars, revision, now, connections>>

StreamErrorUnsettled(k) ==
  /\ calls[k].channel = "open"
  /\ calls' = [calls EXCEPT ![k].channel = "errored"]
  /\ lastOp' = Op("streamerror", NoId,
                  IF calls[k].result = "pending" THEN "COMMAND_FAILED" ELSE "NOOP",
                  k, {}, FALSE)
  /\ UNCHANGED <<toolVars, revision, now, clients, connections>>

\* stream.on('error')
StreamError(k) ==
  /\ calls[k].channel = "open"
  /\ calls' = [calls EXCEPT ![k].channel = "errored",
                            ![k].result = SettleCall(k, "COMMAND_FAILED")]
  /\ lastOp' = Op("streamerror", NoId,
                  IF calls[k].result = "pending" THEN "COMMAND_FAILED" ELSE "NOOP",
                  k, {}, FALSE)
  /\ UNCHANGED <<toolVars, revision, now, clients, connections>>

\* ------------------------------------------------------------------ clock

Tick ==
  /\ now < MaxTicks * TickSeconds
  /\ now' = now + TickSeconds
  /\ lastOp' = Op("tick", NoId, "OK", 0, {}, FALSE)
  /\ UNCHANGED <<toolVars, revision, clients, connections, calls>>

\* ------------------------------------------------------ template expansion

\* tools.ts ensureEnvParserInitialized: loadEnvFile unless already loaded.
\* A file that exists is parsed into envVars; ENOENT only logs.
ensureEnvParserInitialized ==
  /\ ~expansion.ensured
  /\ expansion' = [expansion EXCEPT !.ensured = TRUE]
  /\ envFile' = IF isLoaded THEN envFile ELSE [envFile EXCEPT !.reads = @ + 1]
  /\ IF isLoaded
     THEN UNCHANGED <<envVars, isLoaded, logs>>
     ELSE IF envFile.exists
     THEN /\ envVars' = envFile.vars
          /\ isLoaded' = TRUE
          /\ logs' = logs \cup Written(
               {Log("info", <<"Loaded SSH environment variables from: ", ".sshenv">>),
                Log("debug", <<"Loaded environment variables">>)}
               \cup {Log("debug", <<"Loaded env var: ">> \o n
                        \o <<IF envFile.vars[n] = <<>> THEN "=[EMPTY]" ELSE "=[SET]">>)
                      : n \in DOMAIN envFile.vars})
     ELSE /\ logs' = logs \cup Written(
               {Log("warn", <<"SSH environment file not found: ", ".sshenv">>),
                Log("info", <<"Use \"init\" command to create .sshenv file">>)})
          /\ UNCHANGED <<envVars, isLoaded>>
  /\ UNCHANGED <<revision, now, clients, connections, calls, lastOp, listed,
                 logLevel, remoteFiles, fileResult>>

\* ensureEnvParserInitialized of one ssh_connect call up to the await in
\* loadEnvFile: isEnvLoaded() is tested and, when false, fs.readFile is called
beginLoadEnvFile ==
  /\ envFile.reads < MaxReads
  /\ ~isLoaded
  /\ envFile' = [envFile EXCEPT !.reads = @ + 1, !.reading = @ + 1]
  /\ UNCHANGED <<revision, now, clients, connections, calls, lastOp, listed,
                 envVars, isLoaded, logLevel, logs, expansion, remoteFiles,
                 fileResult>>

\* Map.set for every pair of the file: a name the store already has gets the
\* new value, the other names of the store stay
parseEnvContent(fileVars) ==
  [n \in DOMAIN fileVars \cup DOMAIN envVars
     |-> IF n \in DOMAIN fileVars THEN fileVars[n] ELSE envVars[n]]

\* loadEnvFile after the await: one fs.readFile in flight settles, with the
\* content the file has now or with ENOENT
resumeLoadEnvFile ==
  /\ envFile.reading > 0
  /\ envFile' = [envFile EXCEPT !.reading = @ - 1]
  /\ IF envFile.exists
     THEN /\ envVars' = parseEnvContent(envFile.vars)
          /\ isLoaded' = TRUE
          /\ logs' = logs \cup Written(
               {Log("info", <<"Loaded SSH environment variables from: ", ".sshenv">>),
                Log("debug", <<"Loaded environment variables">>)}
               \cup {Log("debug", <<"Loaded env var: ">> \o n
                        \o <<IF envFile.vars[n] = <<>> THEN "=[EMPTY]" ELSE "=[SET]">>)
                      : n \in DOMAIN envFile.vars})
     ELSE /\ logs' = logs \cup Written(
               {Log("warn", <<"SSH environment file not found: ", ".sshenv">>),
                Log("info", <<"Use \"init\" command to create .sshenv file">>)})
          /\ UNCHANGED <<envVars, isLoaded>>
  /\ UNCHANGED <<revision, now, clients, connections, calls, lastOp, listed,
                 logLevel, expansion, remoteFiles, fileResult>>

\* the .sshenv file is created or rewritten while the process runs (ssh_init
\* writes it, a user edits it)
writeEnvFile(fileVars) ==
  /\ envFile' = [envFile EXCEPT !.exists = TRUE, !.vars = fileVars]
  /\ UNCHANGED <<revision, now, clients, connections, calls, lastOp, listed,
                 envVars, isLoaded, logLevel, logs, expansion, remoteFiles,
                 fileResult>>

\* an object that carries the arguments of ssh_connect
IsConnectArgs(v) == v.type = "object" /\ "password" \in DOMAIN v.entries

\* tools.ts executeSSHConnect after ensureEnvParserInitialized: the arguments
\* are expanded, and the tool logs host, port, username and useAgent
expandConnectArgs ==
  /\ expansion.ensured
  /\ expansion.applied = 0
  /\ IsConnectArgs(expansion.value)
  /\ LET expandedArgs == expandObjectVariables(expansion.value)
         target == expandedArgs.entries.username.chars \o <<"@">>
                     \o expandedArgs.entries.host.chars \o <<":", "22">>
     IN /\ expansion' = [expansion EXCEPT !.input = expansion.value,
                                           !.value = expandedArgs, !.applied = 1,
                                           !.loaded = isLoaded]
        /\ logs' = logs \cup Written(
             expandObjectLogs(expansion.value)
               \cup {Log("debug", <<"SSH Connect with expanded args: ">> \o target),
                     Log("info", <<"Connecting to ">> \o target)})
  /\ UNCHANGED <<revision, now, clients, connections, calls, lastOp, listed,
                 envFile, envVars, isLoaded, logLevel, remoteFiles, fileResult>>

\* EnvParser.expandObjectVariables applied to the current value
expandObject ==
  /\ expansion.applied < MaxExpansions
  /\ expansion' = [expansion EXCEPT !.input = expansion.value,
                                    !.value = expandObjectVariables(expansion.value),
                                    !.applied = @ + 1,
                                    !.loaded = isLoaded]
  /\ logs' = logs \cup Written(expandObjectLogs(expansion.value))
  /\ UNCHANGED <<revision, now, clients, connections, calls, lastOp, listed,
                 envFile, envVars, isLoaded, logLevel, remoteFiles, fileResult>>

\* the command text a tool builds from its argument
ListCommand(path) == <<"ls -la \"">> \o path \o <<"\"">>

\* tools.ts executeSSHExecuteCommand with args.command the current string
executeSSHExecuteCommand(id, timeout) ==
  /\ expansion.value.type = "string"
  /\ issueCommand(id, "execute", timeout, expansion.value.chars)

\* tools.ts executeSSHListFiles with args.path the current string, up to the
\* command it hands to the connection manager
executeSSHListFiles(id) ==
  /\ expansion.value.type = "string"
  /\ issueCommand(id, "list", FileTimeout, ListCommand(expansion.value.chars))

\* -------------------------------------------------------------- file tools

\* the characters of a file's content, the contents and the paths
FileChars == {"a", "'", "\n"}
Contents == UNION {[1..n -> FileChars] : n \in 0..MaxContent}
Paths == {"/p", "/q"}

\* content.replace(/'/g, "'\"'\"'")
RECURSIVE escapedContent(_)
escapedContent(content) ==
  IF content = <<>> THEN <<>>
  ELSE (IF Head(content) = "'" THEN <<"'", "\"", "'", "\"", "'">> ELSE <<Head(content)>>)
         \o escapedContent(Tail(content))

\* the command of ssh_write_file: cat > "path" << 'EOF' \n body \n EOF
WriteCommand(path, content) ==
  [program |-> "cat", redirect |-> path, delimiter |-> "EOF", quoted |-> TRUE,
   body |-> escapedContent(content)]

\* what the remote shell feeds to cat for a here-document with a quoted
\* delimiter: the lines before the delimiter line, taken literally, each
\* ended by a newline
HereDocument(command) == command.body \o <<"\n">>

\* tools.ts executeSSHWriteFile with the remote shell running its command;
\* ok is whether the remote cat could write the file (its exit code is 0)
executeSSHWriteFile(path, content, ok) ==
  /\ IF ok
     THEN /\ remoteFiles' = MapSet(remoteFiles, path,
                                    [content |-> HereDocument(WriteCommand(path, content)),
                                     written |-> content])
          /\ fileResult' = FileResult("write", path, content, "OK")
     ELSE /\ fileResult' = FileResult("write", path, content, "FILE_OPERATION_FAILED")
          /\ UNCHANGED remoteFiles
  /\ UNCHANGED <<revision, now, clients, connections, calls, lastOp, listed,
                 envFile, envVars, isLoaded, logLevel, logs, expansion>>

\* tools.ts executeSSHReadFile with the remote shell running cat "path":
\* stdout is the file's content, a missing file gives a non-zero exit code
executeSSHReadFile(path) ==
  /\ IF path \in DOMAIN remoteFiles
     THEN fileResult' = FileResult("read", path, remoteFiles[path].content, "OK")
     ELSE fileResult' = FileResult("read", path, <<>>, "FILE_NOT_FOUND")
  /\ UNCHANGED <<revision, now, clients, connections, calls, lastOp, listed,
                 envFile, envVars, isLoaded, logLevel, logs, expansion, remoteFiles>>

\* ------------------------------------------------------- listing output

\* the characters /\s/ matches that a line can hold
IsSpace(ch) == ch \in {" ", "\t"}

\* the position of the first element of s at or after i that satisfies
\* wanted (a space when spaces is TRUE, a non-space otherwise), Len(s) + 1
\* when there is none
RECURSIVE FirstAt(_, _, _)
FirstAt(s, i, spaces) ==
  IF i > Len(s) THEN Len(s) + 1
  ELSE IF IsSpace(s[i]) = spaces THEN i
  ELSE FirstAt(s, i + 1, spaces)

\* stdout.split('\n')
RECURSIVE SplitLines(_)
SplitLines(s) ==
  IF \A i \in DOMAIN s : s[i] # "\n" THEN <<s>>
  ELSE LET i == CHOOSE j \in DOMAIN s : s[j] = "\n" /\ \A h \in 1..(j - 1) : s[h] # "\n"
       IN <<SubSeq(s, 1, i - 1)>> \o SplitLines(SubSeq(s, i + 1, Len(s)))

\* line.split(/\s+/): the parts between the runs of whitespace; a run at the
\* start or at the end of the line gives an empty first or last part
RECURSIVE SplitSpaces(_)
SplitSpaces(line) ==
  LET i == FirstAt(line, 1, TRUE) IN
  IF i > Len(line) THEN <<line>>
  ELSE <<SubSeq(line, 1, i - 1)>>
         \o SplitSpaces(SubSeq(line, FirstAt(line, i, FALSE), Len(line)))

\* line.trim() is a non-empty string
IsTrimmedNonEmpty(line) == \E i \in DOMAIN line : ~IsSpace(line[i])

\* line.startsWith('total'), the word being one element of a listing text
StartsWithTotal(line) == Len(line) >= 1 /\ line[1] = "total"

\* the elements of seq that satisfy Keep, in order
RECURSIVE SelectNames(_, _)
SelectNames(seq, dropped) ==
  IF seq = <<>> THEN <<>>
  ELSE (IF Head(seq) \in dropped THEN <<>> ELSE <<Head(seq)>>)
         \o SelectNames(Tail(seq), dropped)

RECURSIVE KeptLines(_)
KeptLines(lines) ==
  IF lines = <<>> THEN <<>>
  ELSE (IF IsTrimmedNonEmpty(Head(lines)) /\ ~StartsWithTotal(Head(lines))
        THEN <<Head(lines)>> ELSE <<>>)
         \o KeptLines(Tail(lines))

\* tools.ts executeSSHListFiles: the file names taken from the stdout of ls -la
ParseListing(stdout) ==
  LET kept == KeptLines(SplitLines(stdout))
      last == [i \in DOMAIN kept |-> LET parts == SplitSpaces(kept[i])
                                     IN parts[Len(parts)]]
  IN SelectNames(last, {<<".">>, <<".", ".">>})

\* the stdout texts of ls -la: spaces, newlines, dots, a letter, and the
\* word total as one element
ListChars == {" ", "\n", ".", "a", "total"}
Listings == UNION {[1..n -> ListChars] : n \in 0..MaxListing}

\* the parsing statements of executeSSHListFiles applied to the stdout that
\* fileResult.content holds
parseListingOutput ==
  /\ fileResult.code = "PENDING"
  /\ fileResult' = [fileResult EXCEPT !.code = "OK",
                                      !.files = ParseListing(fileResult.content)]
  /\ UNCHANGED <<revision, now, clients, connections, calls, lastOp, listed,
                 envFile, envVars, isLoaded, logLevel, logs, expansion, remoteFiles>>

\* ------------------------------------------------- file tools, by result

\* what a file tool does with the outcome of the executeCommand call k it
\* awaited: a rejection of the call is thrown on as it is. The call record
\* does not keep which tool issued it; every file tool issues its command
\* with FileTimeout.
AwaitedBy(k) == calls[k].result # "pending" /\ calls[k].timeout = FileTimeout

\* tools.ts executeSSHReadFile after await connectionManager.executeCommand
readFileResult(k, path) ==
  /\ AwaitedBy(k)
  /\ fileResult' =
       IF calls[k].result # "resolved"
       THEN [FileResult("read", path, <<>>, calls[k].result) EXCEPT !.call = k]
       ELSE IF calls[k].exitCode # 0
       THEN [FileResult("read", path, <<>>, "FILE_NOT_FOUND") EXCEPT !.call = k]
       ELSE [FileResult("read", path, calls[k].resultStdout, "OK") EXCEPT !.call = k]
  /\ UNCHANGED <<revision, now, clients, connections, calls, lastOp, listed,
                 envFile, envVars, isLoaded, logLevel, logs, expansion, remoteFiles>>

\* tools.ts executeSSHWriteFile after await connectionManager.executeCommand
writeFileResult(k, path) ==
  /\ AwaitedBy(k)
  /\ fileResult' =
       IF calls[k].result # "resolved"
       THEN [FileResult("write", path, <<>>, calls[k].result) EXCEPT !.call = k]
       ELSE IF calls[k].exitCode # 0
       THEN [FileResult("write", path, <<>>, "FILE_OPERATION_FAILED")
               EXCEPT !.call = k, !.stderr = calls[k].resultStderr]
       ELSE [FileResult("write", path, <<>>, "OK") EXCEPT !.call = k]
  /\ UNCHANGED <<revision, now, clients, connections, calls, lastOp, listed,
                 envFile, envVars, isLoaded, logLevel, logs, expansion, remoteFiles>>

listFilesResultLenient(k, path) ==
  /\ AwaitedBy(k)
  /\ fileResult' =
       IF calls[k].result # "resolved"
       THEN [FileResult("list", path, <<>>, calls[k].result) EXCEPT !.call = k]
       ELSE [FileResult("list", path, <<>>, "OK")
               EXCEPT !.call = k, !.files = ParseListing(calls[k].resultStdout)]
  /\ UNCHANGED <<revision, now, clients, connections, calls, lastOp, listed,
                 envFile, envVars, isLoaded, logLevel, logs, expansion, remoteFiles>>

\* tools.ts executeSSHListFiles after await connectionManager.executeCommand
listFilesResult(k, path) ==
  /\ AwaitedBy(k)
  /\ fileResult' =
       IF calls[k].result # "resolved"
       THEN [FileResult("list", path, <<>>, calls[k].result) EXCEPT !.call = k]
       ELSE IF calls[k].exitCode # 0
       THEN [FileResult("list", path, <<>>, "FILE_OPERATION_FAILED")
               EXCEPT !.call = k, !.stderr = calls[k].resultStderr]
       ELSE [FileResult("list", path, <<>>, "OK")
               EXCEPT !.call = k, !.files = ParseListing(calls[k].resultStdout)]
  /\ UNCHANGED <<revision, now, clients, connections, calls, lastOp, listed,
                 envFile, envVars, isLoaded, logLevel, logs, expansion, remoteFiles>>

\* ------------------------------------------------------------------- Next

ConnectStep ==
  \E ep \in Endpoints, password \in BOOLEAN, keyPath \in KeyPaths,
     passphrase \in BOOLEAN, useAgent \in BOOLEAN :
    executeSSHConnect(ep, password, keyPath, passphrase, useAgent)

\* ----------------------------------------------------------- executeTool

\* SSHTools.getAllTools: the names of the tools it returns, in order
getAllTools ==
  <<"ssh_connect", "ssh_execute_command", "ssh_list_connections", "ssh_disconnect",
    "ssh_read_file", "ssh_write_file", "ssh_list_files", "ssh_init",
    "ssh_generate_gemini">>

\* names no tool has; the switch compares strings exactly
UnknownTools == {"ssh_reconnect", "SSH_CONNECT", ""}

HandlerForWithoutList(name) ==
  CASE name = "ssh_connect" -> "executeSSHConnect"
    [] name = "ssh_execute_command" -> "executeSSHExecuteCommand"
    [] name = "ssh_list_connections" -> "executeSSHListConnections"
    [] name = "ssh_disconnect" -> "executeSSHDisconnect"
    [] name = "ssh_read_file" -> "executeSSHReadFile"
    [] name = "ssh_write_file" -> "executeSSHWriteFile"
    [] name = "ssh_init" -> "executeSSHInit"
    [] name = "ssh_generate_gemini" -> "executeSSHGenerateGemini"
    [] OTHER -> "methodNotFound"

\* the switch of SSHTools.executeTool: the method a name is handed to
HandlerFor(name) ==
  CASE name = "ssh_connect" -> "executeSSHConnect"
    [] name = "ssh_execute_command" -> "executeSSHExecuteCommand"
    [] name = "ssh_list_connections" -> "executeSSHListConnections"
    [] name = "ssh_disconnect" -> "executeSSHDisconnect"
    [] name = "ssh_read_file" -> "executeSSHReadFile"
    [] name = "ssh_write_file" -> "executeSSHWriteFile"
    [] name = "ssh_list_files" -> "executeSSHListFiles"
    [] name = "ssh_init" -> "executeSSHInit"
    [] name = "ssh_generate_gemini" -> "executeSSHGenerateGemini"
    [] OTHER -> "methodNotFound"

\* tools.ts executeSSHInit: unless the file exists and force is off, the
\* template is written to .sshenv (written is whether mkdir and writeFile
\* went through); the tool returns {success, ...} and never throws
executeSSHInit(force, written, template) ==
  /\ IF (envFile.exists /\ ~force) \/ ~written
     THEN /\ lastOp' = Op("init", NoId, "OK", 0, {}, FALSE)
          /\ UNCHANGED envFile
     ELSE /\ lastOp' = Op("init", NoId, "OK", 0, {}, TRUE)
          /\ envFile' = [envFile EXCEPT !.exists = TRUE, !.vars = template]
  /\ UNCHANGED <<revision, now, clients, connections, calls, listed,
                 envVars, isLoaded, logLevel, logs, expansion, remoteFiles,
                 fileResult>>

\* tools.ts executeSSHGenerateGemini: TOML files are written on the local
\* disk; the tool returns {success, ...} and never throws
executeSSHGenerateGemini(written) ==
  /\ lastOp' = Op("generateGemini", NoId, "OK", 0, {}, written)
  /\ UNCHANGED <<revision, now, clients, connections, calls, listed,
                 envFile, envVars, isLoaded, logLevel, logs, expansion,
                 remoteFiles, fileResult>>

\* SSHTools.executeTool(name, args)
executeTool(name) ==
  LET handler == HandlerFor(name) IN
  \/ handler = "executeSSHConnect" /\ Len(clients) < MaxCmdAttempts /\ ConnectStep
  \/ /\ handler = "executeSSHExecuteCommand"
     /\ Len(calls) < MaxStreamCommands
     /\ \E id \in CallerIds, timeout \in CommandTimeouts :
          executeCommand(id, "execute", timeout)
  \/ handler = "executeSSHListConnections" /\ executeSSHListConnections
  \/ handler = "executeSSHDisconnect" /\ \E id \in CallerIds : disconnect(id)
  \/ /\ handler = "executeSSHReadFile"
     /\ Len(calls) < MaxStreamCommands
     /\ \E id \in CallerIds : executeCommand(id, "read", FileTimeout)
  \/ /\ handler = "executeSSHWriteFile"
     /\ Len(calls) < MaxStreamCommands
     /\ \E id \in CallerIds : executeCommand(id, "write", FileTimeout)
  \/ /\ handler = "executeSSHListFiles"
     /\ Len(calls) < MaxStreamCommands
     /\ \E id \in CallerIds : executeCommand(id, "list", FileTimeout)
  \/ /\ handler = "executeSSHInit"
     /\ \E force \in BOOLEAN, written \in BOOLEAN, template \in Stores :
          executeSSHInit(force, written, template)
  \/ /\ handler = "executeSSHGenerateGemini"
     /\ \E written \in BOOLEAN : executeSSHGenerateGemini(written)
  \/ /\ handler = "methodNotFound"
     /\ lastOp' = [Op("executeTool", NoId, "METHOD_NOT_FOUND", 0, {}, FALSE)
                     EXCEPT !.args = {name}]
     /\ UNCHANGED <<toolVars, revision, now, clients, connections, calls>>

\* the registry and its transports: connect, disconnect, transport events
NextRegistry ==
  \/ ConnectStep
  \/ \E c \in DOMAIN clients : OnReady(c)
  \/ \E c \in DOMAIN clients : OnError(c)
  \/ \E c \in DOMAIN clients : OnTimeout(c)
  \/ \E c \in DOMAIN clients : OnEnd(c)
  \/ \E c \in DOMAIN clients : OnClose(c)
  \/ \E c \in DOMAIN clients : KeepAlive(c)
  \/ \E id \in CallerIds : disconnect(id)
  \/ cleanup
  \/ Tick

\* Spec: the registry under MaxAttempts concurrent connect attempts
Spec == Init /\ [][NextRegistry]_vars

\* SpecCommands: MaxCmdAttempts connect attempts and the commands run on them
NextCommands ==
  \/ (Len(clients) < MaxCmdAttempts /\ ConnectStep)
  \/ \E c \in DOMAIN clients : OnReady(c)
  \/ \E c \in DOMAIN clients : OnError(c)
  \/ \E c \in DOMAIN clients : OnTimeout(c)
  \/ \E c \in DOMAIN clients : OnEnd(c)
  \/ \E c \in DOMAIN clients : OnClose(c)
  \/ \E c \in DOMAIN clients : KeepAlive(c)
  \/ \E id \in CallerIds : disconnect(id)
  \/ Tick
  \/ \E id \in CallerIds, kind \in Kinds, timeout \in CommandTimeouts :
       executeCommand(id, kind, timeout)
  \/ \E k \in DOMAIN calls, error \in BOOLEAN : ExecCallback(k, error)
  \/ \E k \in DOMAIN calls, code \in ExitCodes : StreamClose(k, code)
  \/ \E k \in DOMAIN calls : StreamError(k)

SpecCommands == Init /\ [][NextCommands]_vars

\* SpecStreams: one connection, MaxStreamCommands command channels and the
\* data, close and error events of their streams
NextStreams ==
  \/ (Len(clients) < MaxCmdAttempts /\ ConnectStep)
  \/ \E c \in DOMAIN clients : OnReady(c)
  \/ \E c \in DOMAIN clients : OnEnd(c)
  \/ \E id \in CallerIds : disconnect(id)
  \/ \E id \in CallerIds, kind \in Kinds, timeout \in CommandTimeouts :
       Len(calls) < MaxStreamCommands /\ executeCommand(id, kind, timeout)
  \/ \E k \in DOMAIN calls, error \in BOOLEAN : ExecCallback(k, error)
  \/ \E k \in DOMAIN calls, data \in Chunks : StdoutData(k, data)
  \/ \E k \in DOMAIN calls, data \in Chunks : StderrData(k, data)
  \/ \E k \in DOMAIN calls, code \in ExitCodes : StreamClose(k, code)
  \/ \E k \in DOMAIN calls : StreamError(k)

SpecStreams == Init /\ [][NextStreams]_vars

\* SpecListing: one connection, listConnections and what changes a record
\* afterwards: disconnect, the keep-alive interval, a command's completion
NextListing ==
  \/ (Len(clients) < MaxCmdAttempts /\ ConnectStep)
  \/ \E c \in DOMAIN clients : OnReady(c)
  \/ \E c \in DOMAIN clients : OnEnd(c)
  \/ \E c \in DOMAIN clients : KeepAlive(c)
  \/ \E id \in CallerIds : disconnect(id)
  \/ Tick
  \/ executeSSHListConnections
  \/ \E id \in CallerIds, kind \in Kinds, timeout \in CommandTimeouts :
       Len(calls) < MaxStreamCommands /\ executeCommand(id, kind, timeout)
  \/ \E k \in DOMAIN calls, error \in BOOLEAN : ExecCallback(k, error)
  \/ \E k \in DOMAIN calls, code \in ExitCodes : StreamClose(k, code)

SpecListing == Init /\ [][NextListing]_vars

\* SpecExpand: template expansion of every string of at most MaxLen
\* characters, in each shape, under every .sshenv file and both log levels
InitExpand ==
  /\ InitManager
  /\ revision = "connection-manager.ts"
  /\ InitEnvParser
  /\ InitFiles
  /\ envFile \in EnvFiles
  /\ logLevel \in {"info", "debug"}
  /\ expansion \in {[input |-> v, value |-> v, applied |-> 0, loaded |-> FALSE,
                      ensured |-> FALSE]
                      : v \in UNION {Shapes(s) : s \in Strings}}

NextExpand ==
  \/ ensureEnvParserInitialized
  \/ expandConnectArgs
  \/ expandObject
  \/ \E timeout \in CommandTimeouts : executeSSHExecuteCommand(GhostId, timeout)
  \/ executeSSHListFiles(GhostId)

SpecExpand == InitExpand /\ [][NextExpand]_vars

\* SpecLoad: the ssh_connect calls of one process reach the .sshenv file, each
\* in two steps around the await of fs.readFile, while the file may be written
InitLoad ==
  /\ InitManager
  /\ revision = "connection-manager.ts"
  /\ InitEnvParser
  /\ InitFiles
  /\ envFile \in EnvFiles
  /\ logLevel \in {"info", "debug"}
  /\ expansion = [input |-> Str(<<>>), value |-> Str(<<>>), applied |-> 0,
                  loaded |-> FALSE, ensured |-> FALSE]

NextLoad ==
  \/ beginLoadEnvFile
  \/ resumeLoadEnvFile
  \/ \E st \in Stores : writeEnvFile(st)

SpecLoad == InitLoad /\ [][NextLoad]_vars

\* SpecFiles: ssh_write_file and ssh_read_file on one connection, for every
\* content of at most MaxContent characters
InitFileTools == Init /\ revision = "part_004"

NextFiles ==
  \/ \E path \in Paths, content \in Contents, ok \in BOOLEAN :
       executeSSHWriteFile(path, content, ok)
  \/ \E path \in Paths : executeSSHReadFile(path)

SpecFiles == InitFileTools /\ [][NextFiles]_vars

\* SpecParse: the listing parser over every stdout of at most MaxListing
\* elements
InitParse ==
  /\ InitManager
  /\ revision = "part_004"
  /\ InitEnvParser
  /\ remoteFiles = <<>>
  /\ fileResult \in {FileResult("list", "/p", text, "PENDING") : text \in Listings}
  /\ envFile = EnvFile(FALSE, <<>>)
  /\ logLevel = "info"
  /\ expansion = [input |-> Str(<<>>), value |-> Str(<<>>), applied |-> 0,
                  loaded |-> FALSE, ensured |-> FALSE]

NextParse == parseListingOutput

SpecParse == InitParse /\ [][NextParse]_vars

\* SpecRace: MaxAttempts connect calls are made while no transport is ready
\* yet; the events of their transports and disconnect calls follow
AllStarted == Len(clients) = MaxAttempts

NextRace ==
  \/ (Connecting = DOMAIN clients /\ ConnectStep)
  \/ \E c \in DOMAIN clients : AllStarted /\ OnReady(c)
  \/ \E c \in DOMAIN clients : AllStarted /\ OnError(c)
  \/ \E c \in DOMAIN clients : AllStarted /\ OnEnd(c)
  \/ \E id \in CallerIds : AllStarted /\ disconnect(id)

SpecRace == Init /\ [][NextRace]_vars

\* SpecConcurrent: MaxConcurrent commands on one connection, their channels
\* open at the same time, each emitting at most MaxChunks characters in all
Emitted(k) == Len(calls[k].sentOut) + Len(calls[k].sentErr)

NextConcurrent ==
  \/ (Len(clients) < MaxCmdAttempts /\ ConnectStep)
  \/ \E c \in DOMAIN clients : OnReady(c)
  \/ \E id \in CallerIds, timeout \in CommandTimeouts :
       Len(calls) < MaxConcurrent /\ executeCommand(id, "execute", timeout)
  \/ \E k \in DOMAIN calls, error \in BOOLEAN : ExecCallback(k, error)
  \/ \E k \in DOMAIN calls, data \in Chunks :
       Emitted(k) < MaxChunks /\ StdoutData(k, data)
  \/ \E k \in DOMAIN calls, data \in Chunks :
       Emitted(k) < MaxChunks /\ StderrData(k, data)
  \/ \E k \in DOMAIN calls, code \in ExitCodes : StreamClose(k, code)

SpecConcurrent == Init /\ [][NextConcurrent]_vars

\* SpecDispatch: tool calls by name on one connection, and the events of its
\* transport
ToolNames == {getAllTools[i] : i \in DOMAIN getAllTools}

NextDispatch ==
  \/ \E name \in ToolNames \cup UnknownTools : executeTool(name)
  \/ \E c \in DOMAIN clients : OnReady(c)
  \/ \E c \in DOMAIN clients : OnEnd(c)
  \/ \E k \in DOMAIN calls, error \in BOOLEAN : ExecCallback(k, error)
  \/ \E k \in DOMAIN calls, code \in ExitCodes : StreamClose(k, code)

SpecDispatch == Init /\ [][NextDispatch]_vars

\* SpecFileResults: one connection, the commands of the file tools on it, the
\* events of their channels and what each tool makes of the outcome
NextFileResults ==
  \/ (Len(clients) < MaxCmdAttempts /\ ConnectStep)
  \/ \E c \in DOMAIN clients : OnReady(c)
  \/ \E id \in CallerIds, kind \in Kinds \ {"execute"}, timeout \in CommandTimeouts :
       Len(calls) < MaxStreamCommands /\ executeCommand(id, kind, timeout)
  \/ \E k \in DOMAIN calls, error \in BOOLEAN : ExecCallback(k, error)
  \/ \E k \in DOMAIN calls, data \in Chunks : StdoutData(k, data)
  \/ \E k \in DOMAIN calls, data \in Chunks : StderrData(k, data)
  \/ \E k \in DOMAIN calls, code \in ExitCodes : StreamClose(k, code)
  \/ \E k \in DOMAIN calls : StreamError(k)
  \/ \E k \in DOMAIN calls, path \in Paths : readFileResult(k, path)
  \/ \E k \in DOMAIN calls, path \in Paths : writeFileResult(k, path)
  \/ \E k \in DOMAIN calls, path \in Paths : listFilesResult(k, path)

SpecFileResults == InitFileTools /\ [][NextFileResults]_vars

\* ================================================================= claims

AuthMethods == {"password", "privateKey", "agent"}
IdOps == Kinds \cup {"disconnect"}

\* Connecting plus registered connections
Load == Cardinality(DOMAIN connections) + Cardinality(Connecting)

\* C1: in every reachable state the number of connections the registry holds,
\* Connecting plus Ready, is at most maxConnections.
C1_CapacityNeverExceeded == Load <= maxConnections

\* C2: a connect call that reaches the manager while Connecting+Ready already
\* equals the ceiling fails with a capacity error, opens no transport and
\* leaves the registry as it was.
C2_ConnectAtCeilingRejected ==
  [][(lastOp'.op = "connect" /\ lastOp'.id # NoId /\ Load >= maxConnections)
       => /\ lastOp'.code = "CAPACITY_EXCEEDED"
          /\ clients' = clients
          /\ connections' = connections]_vars

\* the step in which the promise of connect attempt c resolves
ConnectResolves(c) == clients[c].result = "pending" /\ clients'[c].result = "resolved"

\* the record returned by a resolving connect is registered and connected
RegisteredConnected(id) ==
  /\ id \in DOMAIN connections'
  /\ clients'[connections'[id]].isConnected

\* C3 as stated: whenever connect resolves successfully, the returned
\* identifier was not in the registry when the call started and is in the
\* registry, marked connected, when it resolves.
C3_FreshIdOnEveryConnect ==
  [][/\ \A c \in DOMAIN clients :
          ConnectResolves(c) =>
            /\ ~clients[c].presentAtStart
            /\ RegisteredConnected(clients[c].id)
     /\ (lastOp'.op = "connect" /\ lastOp'.code = "OK") =>
            /\ lastOp'.id \notin DOMAIN connections
            /\ RegisteredConnected(lastOp'.id)]_vars

\* C3 amended: whenever connect resolves successfully the returned identifier
\* is in the registry, marked connected; it was not in the registry when the
\* call started, unless the call returned the existing connected entry stored
\* under that identifier, and then no transport is opened and the registry is
\* unchanged.
C3_FreshIdUnlessReused ==
  [][/\ \A c \in DOMAIN clients :
          ConnectResolves(c) =>
            /\ ~clients[c].presentAtStart
            /\ RegisteredConnected(clients[c].id)
     /\ (lastOp'.op = "connect" /\ lastOp'.code = "OK") =>
            /\ lastOp'.id \in DOMAIN connections
            /\ clients[connections[lastOp'.id]].isConnected
            /\ RegisteredConnected(lastOp'.id)
            /\ clients' = clients
            /\ connections' = connections]_vars

\* a 'ready' has just resolved a connect whose identifier is now registered
C3_Witness ==
  /\ lastOp.op = "ready"
  /\ lastOp.code = "OK"
  /\ lastOp.id \in DOMAIN connections
  /\ connections[lastOp.id] = lastOp.client
  /\ ~clients[lastOp.client].presentAtStart

\* C4: an identifier that stays in the registry keeps the transport session
\* it was registered with; no later connect replaces it.
C4_RegisteredSessionNeverReplaced ==
  [][\A id \in (DOMAIN connections) \cap (DOMAIN connections') :
        connections'[id] = connections[id]]_vars

\* the authentication material the arguments supply (a key path that was read)
Supplied(op) ==
  (IF "password" \in op.args THEN {"password"} ELSE {})
    \cup (IF "privateKeyPath" \in op.args THEN {"privateKey"} ELSE {})
    \cup (IF "useAgent" \in op.args THEN {"agent"} ELSE {})

\* C5: when at least one of password, private key and agent is supplied, the
\* configuration handed to the transport carries exactly one method: the
\* password, else the key (with the passphrase if given), else the agent.
C5_ExactlyOneAuthMethod ==
  (lastOp.op = "connect" /\ lastOp.code = "PENDING" /\ Supplied(lastOp) # {})
    => lastOp.cfg =
         IF "password" \in lastOp.args THEN {"password"}
         ELSE IF "privateKeyPath" \in lastOp.args
              THEN {"privateKey"} \cup (lastOp.args \cap {"passphrase"})
         ELSE {"agent"}

\* C6: a connect with no password, no key path and the agent flag false fails
\* with AuthenticationFailed and the transport's connect is not invoked.
C6_NoAuthMaterialFailsFast ==
  (lastOp.op = "connect" /\ Supplied(lastOp) = {})
    => /\ lastOp.code = "AUTHENTICATION_FAILED"
       /\ lastOp.client = 0

\* C7: when disconnect is called for an identifier in the registry it
\* resolves in that call, and the identifier is then absent from
\* listConnections, whatever the state of the transport.
C7_DisconnectRemovesAtOnce ==
  [][(lastOp'.op = "disconnect" /\ lastOp'.id \in DOMAIN connections)
       => /\ lastOp'.code = "OK"
          /\ lastOp'.id \notin ListedIds'
          /\ lastOp'.id \notin DOMAIN connections']_vars

\* disconnect has resolved while the transport it ended has not yet closed
C7_Witness ==
  /\ lastOp.op = "disconnect"
  /\ lastOp.code = "OK"
  /\ clients[lastOp.client].transport = "ending"
  /\ lastOp.id \notin ListedIds

\* C8: disconnect, execute, read, write and list on an identifier that is not
\* in the registry fail with ConnectionNotFound, open no command channel and
\* leave the registry unchanged.
C8_UnknownIdNotFound ==
  [][(lastOp'.op \in IdOps /\ lastOp'.id \notin DOMAIN connections)
       => /\ lastOp'.code = "CONNECTION_NOT_FOUND"
          /\ calls' = calls
          /\ connections' = connections]_vars

\* a second disconnect of an identifier whose first disconnect succeeded
C8_Witness ==
  /\ lastOp.op = "disconnect"
  /\ lastOp.code = "CONNECTION_NOT_FOUND"
  /\ \E c \in DOMAIN clients :
       clients[c].id = lastOp.id /\ clients[c].transport = "ending"

\* C9: a resolved CommandResult has an integer exitCode, and when the channel
\* closed without an exit code (signal, status unavailable) it is not 0.
C9_NoExitStatusIsNonZero ==
  (lastOp.op = "streamclose" /\ lastOp.code = "OK")
    => /\ calls[lastOp.client].exitCode \in Int
       /\ calls[lastOp.client].exitCode # Null
       /\ lastOp.flag => calls[lastOp.client].exitCode # 0

PublicOps == Kinds \cup {"connect", "disconnect", "listConnections"}

\* C12: every public operation ends with a success value or with an error
\* that carries a code of the taxonomy; an error the transport library throws
\* or emits never reaches the caller without such a code.
C12_EveryOutcomeTyped ==
  /\ lastOp.op \in PublicOps => lastOp.code \in {"OK", "PENDING"} \cup ErrorCodes
  /\ \A c \in DOMAIN clients : clients[c].result \in {"pending", "resolved"} \cup ErrorCodes
  /\ \A k \in DOMAIN calls : calls[k].result \in {"pending", "resolved"} \cup ErrorCodes

\* s has sub as a run of consecutive elements
Contains(s, sub) ==
  \E i \in 1..(Len(s) - Len(sub) + 1) : SubSeq(s, i, i + Len(sub) - 1) = sub

\* the password ssh_connect goes on with, once its arguments are expanded
ExpandedPassword == expansion.value.entries.password.chars

\* a value that holds "s", the character only a store value has: no
\* template, variable name or message text contains it
FromStore(value) == \E i \in DOMAIN value : value[i] = "s"

\* C13: no log record written while the arguments of ssh_connect are expanded
\* and the connection is announced contains the value of the password that
\* template expansion substituted from the .sshenv store.
C13_NoSecretInLogs ==
  (IsConnectArgs(expansion.value) /\ expansion.applied >= 1
     /\ FromStore(ExpandedPassword))
    => \A r \in logs : ~Contains(r.text, ExpandedPassword)

\* C14: expanding the result of an expansion made with the store loaded gives
\* that result back: expandObjectVariables is idempotent.
C14_ExpansionIdempotent ==
  [][(expansion.applied >= 1 /\ expansion.loaded
        /\ expansion'.applied = expansion.applied + 1)
       => expansion'.value = expansion.value]_vars

\* C15: a read of a path that a successful write gave the content C returns
\* exactly C.
C15_ReadReturnsWhatWasWritten ==
  (fileResult.op = "read" /\ fileResult.code = "OK")
    => fileResult.content = remoteFiles[fileResult.path].written

\* the registry holds a Ready entry for endpoint ep
ReadyFor(ep) ==
  \E id \in DOMAIN connections :
    /\ clients[connections[id]].ep = ep
    /\ clients[connections[id]].isConnected
    /\ clients[connections[id]].transport = "ready"

\* C16: a connect to an endpoint for which the registry holds a Ready entry
\* returns that entry, opens no new transport and leaves the registry with
\* its single entry for that endpoint.
C16_ReadyEndpointReused ==
  [][(lastOp'.op = "connect" /\ lastOp'.id # NoId /\ ReadyFor(lastOp'.id[1]))
       => /\ lastOp'.code = "OK"
          /\ lastOp'.id \in DOMAIN connections
          /\ clients' = clients
          /\ connections' = connections]_vars

\* the state of connection record c: Connecting until the connect settles,
\* Ready while isConnected, Closed once removed, Failed when connect rejected
RecordState(cl, c) ==
  IF cl[c].isConnected THEN "Ready"
  ELSE IF cl[c].result = "pending" THEN "Connecting"
  ELSE IF cl[c].result = "resolved" THEN "Closed"
  ELSE "Failed"

\* Connecting -> Ready -> Closing -> Closed, and Connecting -> Failed
Forward ==
  {<<"Connecting", "Ready">>, <<"Connecting", "Failed">>, <<"Connecting", "Closed">>,
   <<"Ready", "Closed">>}

\* C17: a connection record only moves forward through Connecting, Ready,
\* Closing and Closed, or from Connecting to Failed; no event moves it back
\* or out of Closed or Failed.
C17_RecordsOnlyMoveForward ==
  [][\A c \in DOMAIN clients :
        \/ RecordState(clients', c) = RecordState(clients, c)
        \/ <<RecordState(clients, c), RecordState(clients', c)>> \in Forward]_vars

\* C18: an entry leaves the registry only in a disconnect or in the shutdown
\* sweep; no transport event and no tick of the liveness prober removes one.
C18_OnlyExplicitEviction ==
  [][(DOMAIN connections \ DOMAIN connections' # {})
       => lastOp'.op \in {"disconnect", "cleanup"}]_vars

\* C19: every entry listConnections returns refers to a transport session
\* that has neither ended nor closed.
C19_ListedEntriesAreActive ==
  \A id \in DOMAIN connections :
    clients[connections[id]].transport \notin {"ended", "closed"}

\* C20: the array listConnections returned keeps the fields its records had
\* when the call returned, whatever happens to the registry or to a
\* connection afterwards.
C20_ListingIsSnapshot ==
  \A c \in DOMAIN listed : Info(clients, c) = listed[c]

\* the clients the registry holds
Registered == {connections[id] : id \in DOMAIN connections}

\* C21: the shutdown sweep ends the transport of every entry the registry
\* holds when it starts, marks each record not connected, completes without
\* an error and leaves the registry empty.
C21_CleanupEmptiesRegistry ==
  [][lastOp'.op = "cleanup"
       => /\ lastOp'.code = "OK"
          /\ connections' = <<>>
          /\ \A c \in Registered :
                /\ ~clients'[c].isConnected
                /\ clients'[c].transport \notin {"connecting", "ready"}
          /\ \A c \in (DOMAIN clients) \ Registered : clients'[c] = clients[c]]_vars

\* the sweep has just run on a registry of two entries, one of them with a
\* live transport, while another connect was not in flight
C21_Witness ==
  /\ lastOp.op = "cleanup"
  /\ connections = <<>>
  /\ Len(clients) = 2
  /\ \A c \in DOMAIN clients : clients[c].result = "resolved" /\ ~clients[c].isConnected
  /\ \E c \in DOMAIN clients : clients[c].transport = "ending"

\* C22: a connect that is given a password is attempted with password
\* authentication alone, whatever key path, passphrase or agent flag comes
\* with it; none of them makes it fail before the transport is reached.
C22_PasswordAlwaysWins ==
  (lastOp.op = "connect" /\ "password" \in lastOp.args)
    => /\ lastOp.code \in {"PENDING", "OK"}
       /\ lastOp.code = "PENDING" => lastOp.cfg = {"password"}

\* C23: a connect with no password and a key path whose file cannot be read
\* fails with a connection error of the taxonomy, opens no transport, agent
\* flag or not, and leaves the registry unchanged.
C23_UnreadableKeyFailsConnect ==
  [][(lastOp'.op = "connect" /\ lastOp'.keyPath = "unreadable"
        /\ "password" \notin lastOp'.args)
       => /\ lastOp'.code = "CONNECTION_FAILED"
          /\ lastOp'.client = 0
          /\ lastOp'.cfg = {}
          /\ clients' = clients
          /\ connections' = connections]_vars

\* such a connect, with the agent flag set, has just failed while the
\* registry holds an entry
C23_Witness ==
  /\ lastOp.op = "connect"
  /\ lastOp.keyPath = "unreadable"
  /\ lastOp.args = {"privateKeyPath", "useAgent"}
  /\ lastOp.code = "CONNECTION_FAILED"
  /\ DOMAIN connections # {}
  /\ Len(clients) < MaxAttempts

\* the ${NAME} token for a variable name
Token(name) == <<"$", "{">> \o name \o <<"}">>

\* an expansion of a value has just been made with the store loaded
ExpandedLoaded ==
  expansion.applied >= 1 /\ expansion.loaded /\ isLoaded

\* the name of an empty-valued variable of the store whose token is the
\* string the last expansion was handed
EmptyTokenExpanded(name) ==
  /\ ExpandedLoaded
  /\ name \in DOMAIN envVars
  /\ envVars[name] = <<>>
  /\ expansion.input = Str(Token(name))

\* C24: a variable whose stored value is the empty string is treated as not
\* set: the ${NAME} token naming it is left in the output as it was.
C24_EmptyValueLeftLiteral ==
  \A name \in Names :
    EmptyTokenExpanded(name) => expansion.value = expansion.input

StringOutcomes(chars) ==
  IF \E name \in DOMAIN envVars : chars = Token(name)
  THEN LET name == CHOOSE n \in DOMAIN envVars : chars = Token(n)
       IN IF envVars[name] = <<>> THEN {chars, <<>>} ELSE {envVars[name]}
  ELSE {chars}

\* out is a structure of the shape of in whose leaves are what the contract
\* lets them be
RECURSIVE Conforms(_, _)
Conforms(in, out) ==
  /\ out.type = in.type
  /\ IF in.type = "string" THEN out.chars \in StringOutcomes(in.chars)
     ELSE IF in.type = "array"
     THEN /\ DOMAIN out.items = DOMAIN in.items
          /\ \A i \in DOMAIN in.items : Conforms(in.items[i], out.items[i])
     ELSE IF in.type = "object"
     THEN /\ DOMAIN out.entries = DOMAIN in.entries
          /\ \A k \in DOMAIN in.entries : Conforms(in.entries[k], out.entries[k])
     ELSE out = in

\* C26: with the store loaded, expandObjectVariables gives back a structure of
\* the shape of its input, with the same object keys and the same number,
\* boolean and null leaves, in which a token of a non-empty variable is
\* replaced by the value and every other text is unchanged; the value it was
\* handed is as it was.
C26_ExpansionKeepsShape ==
  [][(isLoaded /\ expansion'.applied = expansion.applied + 1)
       => /\ Conforms(expansion.value, expansion'.value)
          /\ expansion'.input = expansion.value]_vars

\* C27: the command text that execute hands to the connection manager, and
\* the path in the command that list hands to it, are the tool's argument
\* with its ${NAME} tokens expanded from the loaded store.
C27_ToolArgumentsExpanded ==
  [][(isLoaded /\ lastOp' # lastOp /\ expansion.value.type = "string")
       => /\ lastOp'.op = "execute"
               => lastOp'.command = expandVariables(expansion.value.chars)
          /\ lastOp'.op = "list"
               => lastOp'.command = ListCommand(expandVariables(expansion.value.chars))]_vars

\* C28: the credential file is read at most once in a process, and once the
\* store is loaded its name-to-value mapping never changes.
C28_FileReadOnce ==
  [][/\ envFile'.reads <= 1
     /\ isLoaded => envVars' = envVars]_vars

\* the steps of one executeCommand call, by the operation they record
CommandOps == Kinds \cup {"exec", "stdout", "stderr", "streamerror", "streamclose"}

\* C29: of the steps of executeCommand only the close of the channel of a
\* command that completes writes lastUsed, and only on the owning connection:
\* issuing the command, the exec callback, the data and error events, and the
\* close of a command that has already failed leave every lastUsed unchanged.
C29_LastUsedOnCompletionOnly ==
  [][lastOp'.op \in CommandOps
       => \A c \in DOMAIN clients :
            clients'[c].lastUsed # clients[c].lastUsed
              => /\ lastOp'.op = "streamclose"
                 /\ calls[lastOp'.client].client = c
                 /\ calls[lastOp'.client].result = "pending"]_vars

Awaited == calls[fileResult.call]

\* C31: a file tool whose command ended with a non-zero exit code does not
\* report success: read fails with FILE_NOT_FOUND or FILE_ACCESS_DENIED and
\* gives no content, write and list fail with FILE_OPERATION_FAILED carrying
\* the stderr of the command; a read that succeeds gives the stdout of the
\* command as the content.
C31_NonZeroExitIsFailure ==
  (fileResult.call # 0 /\ Awaited.result = "resolved")
    => /\ (Awaited.exitCode # 0 /\ fileResult.op = "read")
            => /\ fileResult.code \in {"FILE_NOT_FOUND", "FILE_ACCESS_DENIED"}
               /\ fileResult.content = <<>>
       /\ (Awaited.exitCode # 0 /\ fileResult.op \in {"write", "list"})
            => /\ fileResult.code = "FILE_OPERATION_FAILED"
               /\ fileResult.stderr = Awaited.resultStderr
               /\ fileResult.files = <<>>
       /\ (fileResult.op = "read" /\ fileResult.code = "OK")
            => fileResult.content = Awaited.resultStdout
       /\ fileResult.code = "OK" => Awaited.exitCode = 0

\* a listing whose command exited 1 with stderr and stdout output
C31_Witness ==
  /\ fileResult.op = "list"
  /\ fileResult.call # 0
  /\ Awaited.result = "resolved"
  /\ Awaited.exitCode = 1
  /\ Awaited.resultStderr = <<"b", "a">>
  /\ Awaited.resultStdout # <<>>
  /\ fileResult.code = "FILE_OPERATION_FAILED"
  /\ fileResult.stderr = <<"b", "a">>

\* the tools a caller relies on
RequiredTools ==
  {"ssh_connect", "ssh_execute_command", "ssh_list_connections", "ssh_disconnect",
   "ssh_read_file", "ssh_write_file", "ssh_list_files"}

\* the method that implements each tool
HandlerOfTool ==
  [ssh_connect |-> "executeSSHConnect",
   ssh_execute_command |-> "executeSSHExecuteCommand",
   ssh_list_connections |-> "executeSSHListConnections",
   ssh_disconnect |-> "executeSSHDisconnect",
   ssh_read_file |-> "executeSSHReadFile",
   ssh_write_file |-> "executeSSHWriteFile",
   ssh_list_files |-> "executeSSHListFiles",
   ssh_init |-> "executeSSHInit",
   ssh_generate_gemini |-> "executeSSHGenerateGemini"]

\* C32: getAllTools names the seven required tools; executeTool hands every
\* name of getAllTools to the method that implements it and no name to
\* methodNotFound; a call with any other name ends with METHOD_NOT_FOUND and
\* leaves the registry, its transports and its command channels as they were.
C32_EveryToolDispatched ==
  [][/\ RequiredTools \subseteq ToolNames
     /\ \A name \in ToolNames : HandlerFor(name) = HandlerOfTool[name]
     /\ \A name \in UnknownTools : HandlerFor(name) = "methodNotFound"
     /\ lastOp'.op = "executeTool"
          => /\ lastOp'.code = "METHOD_NOT_FOUND"
             /\ lastOp'.args \subseteq UnknownTools
             /\ connections' = connections
             /\ clients' = clients
             /\ calls' = calls
     /\ lastOp'.code = "METHOD_NOT_FOUND" => lastOp'.op = "executeTool"]_vars

\* an unknown tool name was refused while a connection was registered
C32_Witness ==
  /\ lastOp.op = "executeTool"
  /\ lastOp.code = "METHOD_NOT_FOUND"
  /\ lastOp.args = {"SSH_CONNECT"}
  /\ DOMAIN connections # {}
  /\ Len(calls) = MaxStreamCommands

\* C33: a connect attempt whose caller was given CONNECTION_FAILED or
\* CONNECTION_TIMEOUT has no entry in the registry, when the error is
\* delivered and after every later event of its transport.
C33_FailedAttemptNeverRegistered ==
  \A c \in DOMAIN clients :
    clients[c].result \in {"CONNECTION_FAILED", "CONNECTION_TIMEOUT"}
      => c \notin Registered

\* C34: a data event of one stream of a channel appends its chunk to the
\* buffer of that stream of that call and to no other buffer, of the same or
\* of another call; the result of a call that resolves holds exactly what its
\* own stdout stream and its own stderr stream emitted, in order.
C34_OutputKeptPerStream ==
  [][/\ lastOp'.op \in {"stdout", "stderr"}
          => LET k == lastOp'.client IN
             /\ \A j \in (DOMAIN calls) \ {k} : calls'[j] = calls[j]
             /\ lastOp'.op = "stdout"
                  => /\ calls'[k].stderr = calls[k].stderr
                     /\ \E data \in Chunks : calls'[k].stdout = calls[k].stdout \o data
             /\ lastOp'.op = "stderr"
                  => /\ calls'[k].stdout = calls[k].stdout
                     /\ \E data \in Chunks : calls'[k].stderr = calls[k].stderr \o data
     /\ \A k \in DOMAIN calls :
          /\ calls'[k].stdout = calls'[k].sentOut
          /\ calls'[k].stderr = calls'[k].sentErr
          /\ (calls[k].result = "pending" /\ calls'[k].result = "resolved")
               => /\ calls'[k].resultStdout = calls[k].sentOut
                  /\ calls'[k].resultStderr = calls[k].sentErr]_vars

\* the second command resolved with its own output while the first, issued
\* before it on the same connection, is still open with other output
C34_Witness ==
  /\ Len(calls) = 2
  /\ calls[1].client = calls[2].client
  /\ calls[1].channel = "open"
  /\ calls[1].stdout = <<"a">>
  /\ calls[1].stderr = <<"b">>
  /\ calls[2].result = "resolved"
  /\ calls[2].resultStdout = <<"b", "a">>
  /\ calls[2].resultStderr = <<>>

\* C35: when two connects to one endpoint, both started before either was
\* ready, have both succeeded with their transports ready, the registry holds
\* an entry for each of them, under two distinct identifiers.
C35_RaceGivesTwoEntries ==
  [][(/\ lastOp'.op = "ready"
      /\ Len(clients) = 2
      /\ clients[1].ep = clients[2].ep
      /\ \A c \in {1, 2} : clients'[c].result = "resolved"
                             /\ clients'[c].transport = "ready")
       => /\ {connections'[id] : id \in DOMAIN connections'} = {1, 2}
          /\ Cardinality(DOMAIN connections') = 2]_vars

\* the last maximal run of non-space elements of a line that has one
FinalToken(line) ==
  LET j == CHOOSE h \in DOMAIN line :
             ~IsSpace(line[h]) /\ \A g \in (h + 1)..Len(line) : IsSpace(line[g])
      i == CHOOSE h \in 1..j :
             /\ \A g \in h..j : ~IsSpace(line[g])
             /\ (h = 1 \/ IsSpace(line[h - 1]))
  IN SubSeq(line, i, j)

\* the names the contract gives for the lines of a listing, in order
RECURSIVE ExpectedNames(_)
ExpectedNames(lines) ==
  IF lines = <<>> THEN <<>>
  ELSE LET line == Head(lines) IN
       (IF (\E h \in DOMAIN line : ~IsSpace(line[h]))
             /\ ~(Len(line) >= 1 /\ line[1] = "total")
             /\ FinalToken(line) \notin {<<".">>, <<".", ".">>}
        THEN <<FinalToken(line)>> ELSE <<>>)
         \o ExpectedNames(Tail(lines))

\* C36: the names a listing returns are the final whitespace-delimited tokens
\* of the non-blank lines of the output that do not start with total, in
\* order, without "." and ".."; every name returned is non-empty.
C36_ListingNames ==
  (fileResult.op = "list" /\ fileResult.code = "OK" /\ fileResult.call = 0)
    => /\ fileResult.files = ExpectedNames(SplitLines(fileResult.content))
       /\ \A i \in DOMAIN fileResult.files : fileResult.files[i] # <<>>

\* C37: in connection-manager.ts the 'end' or 'close' event of a transport
\* removes no registry entry but the one that holds that transport: an entry
\* of another transport, its record included, is as it was.
C37_EndRemovesOwnEntryOnly ==
  [][(revision = "connection-manager.ts" /\ lastOp'.op \in {"end", "close"})
       => \A id \in DOMAIN connections :
            connections[id] # lastOp'.client
              => /\ id \in DOMAIN connections'
                 /\ connections'[id] = connections[id]
                 /\ clients'[connections[id]] = clients[connections[id]]]_vars

\* C38: every entry of the registry holds a record with isConnected = TRUE,
\* so getConnectionStats reports connected = total, and no executeCommand
\* call ends with the 'Connection not established' ConnectionFailed error.
C38_RegisteredMeansConnected ==
  /\ \A id \in DOMAIN connections : clients[connections[id]].isConnected
  /\ getConnectionStats.connected = getConnectionStats.total
  /\ lastOp.op \in Kinds => lastOp.code # "CONNECTION_FAILED"

\* a command is issued on a registered entry whose transport has failed or
\* closed: the isConnected check lets it through
C38_Witness ==
  /\ lastOp.op \in Kinds
  /\ lastOp.id \in DOMAIN connections
  /\ clients[connections[lastOp.id]].transport \in {"errored", "ended", "closed"}
  /\ clients[connections[lastOp.id]].isConnected
  /\ lastOp.code = "Error"
  /\ getConnectionStats.total > 0

\* C39: once cleanup has completed the registry stays empty: the step that
\* follows it, the 'ready' event of a connect that was still connecting when
\* the sweep ran included, leaves no entry in the registry.
C39_EmptyAfterCleanup ==
  [][lastOp.op = "cleanup" => DOMAIN connections' = {}]_vars

\* C10: no executeCommand call is still pending once its timeout has elapsed.
C10_NoCallPendingPastTimeout ==
  \A k \in DOMAIN calls :
    calls[k].result = "pending" => now - calls[k].issuedAt <= calls[k].timeout

====
